---- MODULE Spec2Model ----
(***************************************************************************)
(* Model of assets/models/scripts/combine_mixamo_animations.py.            *)
(*                                                                         *)
(* The script runs inside the host application (bpy).  The host scene is   *)
(* modelled as the collection bpy.data.objects, the selection and the      *)
(* active object; every function of the script is one action that does     *)
(* all the host calls the function makes.  Strings built with f-strings    *)
(* or os.path.join are modelled as tuples of their parts, so two paths or  *)
(* names are equal exactly when their parts are.                           *)
(*                                                                         *)
(* Data blocks other than objects (bpy.data.meshes, armatures, actions)    *)
(* are not part of the modelled state: the script only purges the unused   *)
(* ones (lines 105-113) and never reads them again.                        *)
(***************************************************************************)
EXTENDS Integers, Sequences, FiniteSets, TLC

VARIABLES
    pc,              \* position of the script: idle / clear / mesh / anims / done / aborted
    runs,            \* number of times process_character has been started in this host session
    character_name,  \* argument of process_character
    objects,         \* bpy.data.objects: object id -> object
    selected,        \* ids of the selected objects
    active,          \* bpy.context.view_layer.objects.active (0: none)
    armature,        \* local `armature` of process_character (0: unbound)
    mesh,            \* local `mesh` of process_character (0: unbound)
    animIdx,         \* position of the loop over ANIMATION_FILES.items()
    error,           \* the exception that ended the run ("" when none)
    warnings,        \* warnings printed in this run
    steps,           \* functions of the script called in this run, in order
    hostCalls,       \* number of calls of each host operator in this run
    imported,        \* names of the objects the host read from the mesh source in this run
    fbxLog,          \* what each call of import_mixamo_animation of this run found at anim_path
    exported,        \* arguments and selection of the host export call of this run
    outputs          \* export calls of this host session: the file written and for whom

vars == <<pc, runs, character_name, objects, selected, active, armature, mesh,
          animIdx, error, warnings, steps, hostCalls, imported, fbxLog, exported,
          outputs>>

-----------------------------------------------------------------------------
(* Bounds of the model *)

\* runs of the script in one host session
MaxRuns == 2
\* objects of the mesh source scene besides the two configured ones
MaxSceneExtras == 1
\* objects in one animation file
MaxFbxObjs == 2
\* objects the scene holds at most while the animations are imported
MaxSceneObjects == 4

-----------------------------------------------------------------------------
(* Configuration tables *)

BASE_DIR == <<"Users", "michalsvondr", "WAG_GAME", "assets", "models">>

CHARACTER == "casual_male_g"

CharacterConfig(armName, meshName, animDir, outFile, outName) ==
    [ mesh_source    |-> BASE_DIR \o <<"lowpoly-people-pack_extracted", "scene.gltf">>,
      mesh_armature  |-> <<armName>>,
      mesh_object    |-> <<meshName>>,
      animations_dir |-> BASE_DIR \o <<"mixamo_animations", animDir>>,
      output_path    |-> BASE_DIR \o <<outFile>>,
      output_name    |-> outName ]

\* A table in which casual_female_g is exported to the file of casual_male_g
ConfigSharedOutput ==
    [ casual_male_g   |-> CharacterConfig("Object_98", "Object_101", "casual_male_g",
                                          "developer-lowpoly.glb", "Developer_Lowpoly"),
      casual_female_g |-> CharacterConfig("Object_6", "Object_9", "casual_female_g",
                                          "developer-lowpoly.glb",
                                          "Frontend_Developer_Lowpoly"),
      casual_female_k |-> CharacterConfig("Object_50", "Object_53", "casual_female_k",
                                          "ux-designer-lowpoly.glb", "UX_Designer_Lowpoly"),
      casual_male_k   |-> CharacterConfig("Object_142", "Object_145", "casual_male_k",
                                          "product-owner-lowpoly.glb",
                                          "Product_Owner_Lowpoly"),
      doctor_male     |-> CharacterConfig("Object_190", "Object_193", "doctor_male",
                                          "business-analyst-lowpoly.glb",
                                          "Business_Analyst_Lowpoly"),
      elder_female    |-> CharacterConfig("Object_243", "Object_246", "elder_female",
                                          "test-manager-lowpoly.glb",
                                          "Test_Manager_Lowpoly") ]

CONFIG ==
    [ casual_male_g   |-> CharacterConfig("Object_98", "Object_101", "casual_male_g",
                                          "developer-lowpoly.glb", "Developer_Lowpoly"),
      casual_female_g |-> CharacterConfig("Object_6", "Object_9", "casual_female_g",
                                          "frontend-developer-lowpoly.glb",
                                          "Frontend_Developer_Lowpoly"),
      casual_female_k |-> CharacterConfig("Object_50", "Object_53", "casual_female_k",
                                          "ux-designer-lowpoly.glb", "UX_Designer_Lowpoly"),
      casual_male_k   |-> CharacterConfig("Object_142", "Object_145", "casual_male_k",
                                          "product-owner-lowpoly.glb",
                                          "Product_Owner_Lowpoly"),
      doctor_male     |-> CharacterConfig("Object_190", "Object_193", "doctor_male",
                                          "business-analyst-lowpoly.glb",
                                          "Business_Analyst_Lowpoly"),
      elder_female    |-> CharacterConfig("Object_243", "Object_246", "elder_female",
                                          "test-manager-lowpoly.glb",
                                          "Test_Manager_Lowpoly") ]

\* dict: items() iterates in insertion order
ANIMATION_FILES ==
    << <<"Idle", "idle.fbx">>, <<"Walk", "walk.fbx">>,
       <<"Run", "run.fbx">>, <<"Flee", "flee.fbx">> >>

AnimKey(i) == ANIMATION_FILES[i][1]
AnimFile(i) == ANIMATION_FILES[i][2]

\* os.path.join(anim_dir, anim_file)
PathJoin(dir, file) == dir \o <<file>>

\* the names a caller may pass: the keys of CONFIG and one that is not a key
CharacterNames == DOMAIN CONFIG \cup {"unknown_character"}

-----------------------------------------------------------------------------
(* Host objects *)

NoAction == [name |-> "", frame_range |-> <<0, 0>>]
NoAnimData == [present |-> FALSE, action |-> NoAction, nla_tracks |-> <<>>]
EmptyAnimData == [present |-> TRUE, action |-> NoAction, nla_tracks |-> <<>>]

\* line 149: math.radians(90), kept in degrees
RotXDeg == 90
\* line 150: the scale 0.01, kept in hundredths; the unit scale is 100 hundredths
ScalePct == 1
UnitScalePct == 100

\* transform of a freshly imported object: no rotation, unit scale, nothing applied
\* `made` records the run and the host call that created the object
Obj(name, type, animation_data, made) ==
    [ name |-> name, type |-> type, animation_data |-> animation_data,
      rotation_x |-> 0, scale_pct |-> UnitScalePct, applied |-> <<0, UnitScalePct>>,
      made |-> made ]

\* n unused object ids, in increasing order
RECURSIVE FreshIds(_, _)
FreshIds(used, n) ==
    IF n = 0 THEN <<>>
    ELSE LET i == CHOOSE k \in 1..(Cardinality(used) + 1) : k \notin used
         IN <<i>> \o FreshIds(used \cup {i}, n - 1)

Range(s) == {s[i] : i \in DOMAIN s}

\* the scene after the host added the objects `news` (a sequence) under the ids `ids`
AddObjects(objs, ids, news) ==
    [i \in DOMAIN objs \cup Range(ids) |->
        IF i \in DOMAIN objs THEN objs[i]
        ELSE news[CHOOSE k \in DOMAIN ids : ids[k] = i]]

\* bpy.data.objects.remove(obj, do_unlink=True), for a set of objects
RemoveObjects(objs, gone) == [i \in DOMAIN objs \ gone |-> objs[i]]

\* bpy.data.objects.get(name): 0 stands for None
GetObject(objs, name) ==
    IF \E i \in DOMAIN objs : objs[i].name = name
    THEN CHOOSE i \in DOMAIN objs : objs[i].name = name
    ELSE 0

HostOps == {"select_all", "delete", "import_gltf", "duplicate", "remove",
            "transform_apply", "import_fbx", "export_gltf"}

NoCalls == [op \in HostOps |-> 0]

Called(calls, op, n) == [calls EXCEPT ![op] = @ + n]

NoExport == [called |-> FALSE, filepath |-> <<>>, objects |-> {}, tracks |-> <<>>]

-----------------------------------------------------------------------------
Init ==
    /\ pc = "idle"
    /\ runs = 0
    /\ character_name = ""
    /\ objects \in { <<>>, <<Obj(<<"Cube">>, "MESH", NoAnimData, <<0, "user">>)>> }
    /\ selected = {}
    /\ active = 0
    /\ armature = 0
    /\ mesh = 0
    /\ animIdx = 1
    /\ error = ""
    /\ warnings = {}
    /\ steps = <<>>
    /\ hostCalls = NoCalls
    /\ imported = {}
    /\ fbxLog = <<>>
    /\ exported = NoExport
    /\ outputs = {}

-----------------------------------------------------------------------------
(* process_character, up to the first step (lines 231-240) *)

\* `character_name not in CONFIG`
UnknownCharacter(c) == c \notin DOMAIN CONFIG

\* config = CONFIG[character_name], read wherever the run uses it
Config == CONFIG[character_name]

\* the test of lines 233-234 made after clear_scene (line 243) instead of first
ProcessCharacterChecksLate(c) ==
    /\ pc \in {"idle", "done", "aborted"}
    /\ character_name' = c
    /\ armature' = 0
    /\ mesh' = 0
    /\ animIdx' = 1
    /\ warnings' = {}
    /\ imported' = {}
    /\ fbxLog' = <<>>
    /\ exported' = NoExport
    /\ IF UnknownCharacter(c)
       THEN /\ objects' = RemoveObjects(objects, DOMAIN objects)
            /\ selected' = {}
            /\ active' = 0
            /\ hostCalls' = Called(Called(NoCalls, "select_all", 1), "delete", 1)
            /\ steps' = << <<"clear_scene">> >>
            /\ pc' = "aborted"
            /\ error' = "ValueError: Unknown character"
       ELSE /\ hostCalls' = NoCalls
            /\ steps' = <<>>
            /\ pc' = "clear"
            /\ error' = ""
            /\ UNCHANGED <<objects, selected, active>>
    /\ UNCHANGED outputs

ProcessCharacter(c) ==
    /\ pc \in {"idle", "done", "aborted"}
    /\ character_name' = c
    /\ armature' = 0
    /\ mesh' = 0
    /\ animIdx' = 1
    /\ warnings' = {}
    /\ steps' = <<>>
    /\ hostCalls' = NoCalls
    /\ imported' = {}
    /\ fbxLog' = <<>>
    /\ exported' = NoExport
    /\ IF UnknownCharacter(c)
       THEN /\ pc' = "aborted"
            /\ error' = "ValueError: Unknown character"
       ELSE /\ pc' = "clear"
            /\ error' = ""
    /\ UNCHANGED <<objects, selected, active, outputs>>

-----------------------------------------------------------------------------
(* clear_scene (lines 99-113) *)

\* action='DESELECT' in place of 'SELECT' in line 101
SelectNone(objs) == {}

\* bpy.ops.object.select_all(action='SELECT')
SelectAll(objs) == DOMAIN objs

\* bpy.ops.object.delete(use_global=False): the selected objects leave the scene
DeleteSelected(objs, sel) == RemoveObjects(objs, sel)

ClearScene ==
    /\ pc = "clear"
    /\ LET sel == SelectAll(objects)
           objs == DeleteSelected(objects, sel)
       IN /\ objects' = objs
          /\ selected' = sel \cap DOMAIN objs
          /\ active' = IF active \in DOMAIN objs THEN active ELSE 0
    /\ hostCalls' = Called(Called(hostCalls, "select_all", 1), "delete", 1)
    /\ steps' = Append(steps, <<"clear_scene">>)
    /\ pc' = "mesh"
    /\ UNCHANGED <<runs, character_name, armature, mesh, animIdx, error, warnings,
                   imported, fbxLog, exported, outputs>>

-----------------------------------------------------------------------------
(* import_character_mesh (lines 115-159) *)

Track(name, start, action) ==
    [ name |-> name,
      strips |-> << [name |-> name, start |-> start, action |-> action] >> ]

\* animation data an armature of the mesh source may carry: none, an empty block,
\* or a clip of its own that the host's importer put on an NLA track
TakeAction == [name |-> "Take 001", frame_range |-> <<0, 30>>]
TakeAnimData ==
    [ present |-> TRUE, action |-> NoAction,
      nla_tracks |-> << Track("Take 001", 0, TakeAction) >> ]
ArmatureAnimData == {NoAnimData, EmptyAnimData, TakeAnimData}

\* The contents the mesh source scene may have: the configured armature (an
\* ARMATURE, line 39) or not, the configured mesh (a MESH, line 40) or not, and
\* up to MaxSceneExtras objects of other characters.
MeshSourceScenes(cfg, made) ==
    { arm \o msh \o [k \in 1..n |-> Obj(<<"Object", ToString(k)>>, "MESH", NoAnimData, made)] :
        arm \in {<<>>} \cup { <<Obj(cfg.mesh_armature, "ARMATURE", ad, made)>> :
                                ad \in ArmatureAnimData },
        msh \in {<<>>, <<Obj(cfg.mesh_object, "MESH", NoAnimData, made)>>},
        n \in 0..MaxSceneExtras }

\* bpy.context.selected_objects, in the host's order (here: by id)
RECURSIVE SelectedObjects(_)
SelectedObjects(sel) ==
    IF sel = {} THEN <<>>
    ELSE LET i == CHOOSE k \in sel : \A j \in sel : k <= j
         IN <<i>> \o SelectedObjects(sel \ {i})

\* [o for o in bpy.context.selected_objects if o.type == type]
OfType(objs, seq, type) == SelectSeq(seq, LAMBDA i : objs[i].type = type)

\* bpy.ops.object.duplicate(): a copy of every selected object; the copies become
\* the selection and the copy of the active object becomes the active object
Duplicate(objs, sel, act, made) ==
    LET order == SelectedObjects(sel)
        ids == FreshIds(DOMAIN objs, Len(order))
        copies == [k \in DOMAIN order |->
                     [objs[order[k]] EXCEPT !.name = @ \o <<".001">>, !.made = made]]
    IN [ objects |-> AddObjects(objs, ids, copies),
         selected |-> Range(ids),
         active |-> IF act \in sel
                    THEN ids[CHOOSE k \in DOMAIN order : order[k] = act]
                    ELSE act ]

\* `and` in place of `or` in line 125
NotFoundBoth(a, m) == a = 0 /\ m = 0

\* `if not armature or not mesh`
NotFound(a, m) == a = 0 \/ m = 0

\* the loop of lines 140-142 left out
OthersOfNone(objs, keep) == {}

\* `for obj in list(bpy.data.objects): if obj not in [new_armature, new_mesh]`
OthersOf(objs, keep) == DOMAIN objs \ keep

\* lines 145-150: the two renames, the rotation about X and the scale of the armature
Renamed(objs, new_armature, new_mesh, cfg) ==
    [i \in DOMAIN objs |->
        IF i = new_armature
        THEN [objs[i] EXCEPT !.name = <<cfg.output_name, "_Armature">>,
                             !.rotation_x = RotXDeg, !.scale_pct = ScalePct]
        ELSE IF i = new_mesh
        THEN [objs[i] EXCEPT !.name = <<cfg.output_name, "_Mesh">>]
        ELSE objs[i]]

\* bpy.ops.object.transform_apply(location=True, rotation=True, scale=True)
TransformApply(objs, sel) ==
    [i \in DOMAIN objs |->
        IF i \in sel
        THEN [objs[i] EXCEPT
                !.applied = <<@[1] + objs[i].rotation_x,
                              (@[2] * objs[i].scale_pct) \div UnitScalePct>>,
                !.rotation_x = 0, !.scale_pct = UnitScalePct]
        ELSE objs[i]]

ImportCharacterMesh ==
    /\ pc = "mesh"
    /\ \E scene \in MeshSourceScenes(Config, <<runs, "import_gltf">>) :
         LET ids == FreshIds(DOMAIN objects, Len(scene))
             objs1 == AddObjects(objects, ids, scene)
             a == GetObject(objs1, Config.mesh_armature)
             m == GetObject(objs1, Config.mesh_object)
             sel1 == {a, m} \cap DOMAIN objs1
             dup == Duplicate(objs1, sel1, a, <<runs, "duplicate">>)
             new_armature == dup.active
             meshes == OfType(dup.objects, SelectedObjects(dup.selected), "MESH")
             new_mesh == meshes[1]
             gone == OthersOf(dup.objects, {new_armature, new_mesh})
             objs2 == RemoveObjects(dup.objects, gone)
             objs3 == Renamed(objs2, new_armature, new_mesh, Config)
             sel3 == {new_armature, new_mesh} \cap DOMAIN objs3
             objs4 == TransformApply(objs3, sel3)
             calls1 == Called(hostCalls, "import_gltf", 1)
             calls2 == Called(Called(calls1, "select_all", 1), "duplicate", 1)
             calls3 == Called(Called(calls2, "select_all", 1), "remove", Cardinality(gone))
             calls4 == Called(Called(calls3, "select_all", 1), "transform_apply", 1)
         IN /\ imported' = {scene[k].name : k \in DOMAIN scene}
            /\ steps' = Append(steps, <<"import_character_mesh">>)
            /\ IF NotFound(a, m)
               THEN \* line 126
                    /\ objects' = objs1
                    /\ selected' = Range(ids)
                    /\ hostCalls' = calls1
                    /\ pc' = "aborted"
                    /\ error' = "ValueError: Could not find armature or mesh"
                    /\ UNCHANGED <<active, armature, mesh>>
               ELSE IF meshes = <<>>
               THEN \* line 136, [...][0] of an empty list
                    /\ objects' = dup.objects
                    /\ selected' = dup.selected
                    /\ active' = dup.active
                    /\ hostCalls' = calls2
                    /\ pc' = "aborted"
                    /\ error' = "IndexError"
                    /\ UNCHANGED <<armature, mesh>>
               ELSE /\ objects' = objs4
                    /\ selected' = sel3
                    /\ active' = new_armature
                    /\ hostCalls' = calls4
                    /\ armature' = new_armature
                    /\ mesh' = new_mesh
                    /\ pc' = "anims"
                    /\ UNCHANGED error
    /\ UNCHANGED <<runs, character_name, animIdx, warnings, fbxLog, exported, outputs>>

-----------------------------------------------------------------------------
(* import_mixamo_animation (lines 161-207), called from the loop of lines 251-253 *)

\* the clip a Mixamo file carries
ClipAction == [name |-> "mixamo.com", frame_range |-> <<1, 30>>]

\* what an object of an animation file may be
FbxKinds == {"ARMATURE_ACTION", "ARMATURE_NO_ACTION", "ARMATURE_NO_ANIMDATA", "MESH"}

FbxObject(kind, made) ==
    CASE kind = "ARMATURE_ACTION" ->
           Obj(<<"Armature">>, "ARMATURE",
               [present |-> TRUE, action |-> ClipAction, nla_tracks |-> <<>>], made)
      [] kind = "ARMATURE_NO_ACTION" ->
           Obj(<<"Armature">>, "ARMATURE", EmptyAnimData, made)
      [] kind = "ARMATURE_NO_ANIMDATA" ->
           Obj(<<"Armature">>, "ARMATURE", NoAnimData, made)
      [] OTHER ->
           Obj(<<"Beta_Surface">>, "MESH", NoAnimData, made)

\* os.path.exists(anim_path) and, when the file is there, the objects it holds in
\* the order the host lists them after the import
FbxFiles ==
    {[exists |-> FALSE, content |-> <<>>]} \cup
    {[exists |-> TRUE, content |-> c] :
        c \in UNION {[1..n -> FbxKinds] : n \in 0..MaxFbxObjs}}

\* the files the script asks for (line 18: Mixamo clips downloaded "Without Skin",
\* an armature with its action and nothing else), present or not
MixamoFiles ==
    { [exists |-> FALSE, content |-> <<>>],
      [exists |-> TRUE, content |-> <<"ARMATURE_ACTION">>] }

\* what a file holds for the script: absent, no armature, or the animation state of
\* the first armature the host lists
Outcome(file) ==
    LET arms == SelectSeq(file.content, LAMBDA k : k # "MESH")
    IN IF ~file.exists THEN "absent"
       ELSE IF arms = <<>> THEN "no_armature"
       ELSE IF arms[1] = "ARMATURE_ACTION" THEN "action"
       ELSE IF arms[1] = "ARMATURE_NO_ACTION" THEN "no_action"
       ELSE "no_animation_data"

\* lines 178-182: the first selected armature that is not the target (0: None)
ImportedArmature(objs, sel, target_armature) ==
    LET found == SelectSeq(SelectedObjects(sel),
                           LAMBDA i : objs[i].type = "ARMATURE" /\ i # target_armature)
    IN IF found = <<>> THEN 0 ELSE found[1]

\* line 189
HasAction(obj) == obj.animation_data.present /\ obj.animation_data.action # NoAction

\* the track and its strip named after the file, not the key
NlaTrackNamedByFile(anim_path, anim_name, action) ==
    Track(anim_path[Len(anim_path)], action.frame_range[1],
          [action EXCEPT !.name = anim_name])

\* lines 191 and 198-200: the renamed action on a new track with one strip
NlaTrack(anim_path, anim_name, action) ==
    Track(anim_name, action.frame_range[1], [action EXCEPT !.name = anim_name])

\* lines 194-200
AttachAction(objs, target_armature, track) ==
    LET ad == IF objs[target_armature].animation_data.present
              THEN objs[target_armature].animation_data
              ELSE EmptyAnimData
    IN [objs EXCEPT ![target_armature].animation_data =
                        [ad EXCEPT !.nla_tracks = Append(@, track)]]

\* line 205 left out
RemoveImportedSkipped(objs, imported_armature) == objs

\* line 205: bpy.data.objects.remove(imported_armature, do_unlink=True)
RemoveImported(objs, imported_armature) == RemoveObjects(objs, {imported_armature})

\* the item is tried again
SameItem(i) == i

\* the loop of line 251 moves on to the next item
NextItem(i) == i + 1

ImportMixamoAnimationFrom(files) ==
    /\ pc = "anims"
    /\ animIdx <= Len(ANIMATION_FILES)
    /\ \E file \in files :
         /\ Cardinality(DOMAIN objects) + Len(file.content) <= MaxSceneObjects
         /\ LET anim_name == AnimKey(animIdx)
                anim_path == PathJoin(Config.animations_dir, AnimFile(animIdx))
                target_armature == armature
                made == <<runs, "import_fbx">>
                news == [k \in DOMAIN file.content |-> FbxObject(file.content[k], made)]
                ids == FreshIds(DOMAIN objects, Len(news))
                objs1 == AddObjects(objects, ids, news)
                imported_armature == ImportedArmature(objs1, Range(ids), target_armature)
                action == objs1[imported_armature].animation_data.action
                objs2 == AttachAction(objs1, target_armature,
                                      NlaTrack(anim_path, anim_name, action))
                calls1 == Called(hostCalls, "import_fbx", 1)
            IN /\ steps' = Append(steps, <<"import_mixamo_animation", anim_name>>)
               /\ fbxLog' = Append(fbxLog, [key |-> anim_name, outcome |-> Outcome(file),
                                             brought |-> Len(file.content)])
               /\ IF ~file.exists
                  THEN \* lines 163-165
                       /\ warnings' = warnings \cup {<<"Animation file not found", anim_path>>}
                       /\ animIdx' = NextItem(animIdx)
                       /\ UNCHANGED <<objects, selected, hostCalls, pc, error>>
                  ELSE IF imported_armature = 0
                  THEN \* lines 184-186
                       /\ warnings' = warnings \cup
                                        {<<"No armature found in animation file", anim_path>>}
                       /\ objects' = objs1
                       /\ selected' = Range(ids)
                       /\ hostCalls' = calls1
                       /\ animIdx' = NextItem(animIdx)
                       /\ UNCHANGED <<pc, error>>
                  ELSE IF HasAction(objs1[imported_armature])
                  THEN \* lines 189-207
                       /\ objects' = RemoveImported(objs2, imported_armature)
                       /\ selected' = Range(ids) \cap DOMAIN objects'
                       /\ hostCalls' = Called(calls1, "remove", 1)
                       /\ animIdx' = NextItem(animIdx)
                       /\ UNCHANGED <<warnings, pc, error>>
                  ELSE \* lines 205-207: `action` was never assigned
                       /\ objects' = RemoveImported(objs1, imported_armature)
                       /\ selected' = Range(ids) \cap DOMAIN objects'
                       /\ hostCalls' = Called(calls1, "remove", 1)
                       /\ pc' = "aborted"
                       /\ error' = "UnboundLocalError: action"
                       /\ UNCHANGED <<warnings, animIdx>>
    /\ UNCHANGED <<runs, character_name, active, armature, mesh, imported, exported,
                   outputs>>

\* one iteration of the loop, whatever the file at anim_path holds
ImportMixamoAnimation == ImportMixamoAnimationFrom(FbxFiles)

\* one iteration of the loop over files as Mixamo delivers them
ImportMixamoClip == ImportMixamoAnimationFrom(MixamoFiles)

-----------------------------------------------------------------------------
(* export_glb (lines 209-229), called at line 256 *)

\* use_selection=True: the selected objects are written
ExportSet(objs, sel) == sel

ExportGlb ==
    /\ pc = "anims"
    /\ animIdx > Len(ANIMATION_FILES)
    /\ LET sel == {armature, mesh} \cap DOMAIN objects
       IN /\ selected' = sel
          /\ active' = armature
          /\ exported' = [ called |-> TRUE,
                           filepath |-> Config.output_path,
                           objects |-> {objects[i].name : i \in ExportSet(objects, sel)},
                           tracks |-> objects[armature].animation_data.nla_tracks ]
    /\ outputs' = outputs \cup {[path |-> Config.output_path, by |-> character_name]}
    /\ hostCalls' = Called(Called(hostCalls, "select_all", 1), "export_gltf", 1)
    /\ steps' = Append(steps, <<"export_glb">>)
    /\ pc' = "done"
    /\ UNCHANGED <<runs, character_name, objects, armature, mesh, animIdx, error,
                   warnings, imported, fbxLog>>

-----------------------------------------------------------------------------
(* The entry point (lines 265-266) and calls of process_character by a caller *)

\* the script is executed: one call, with the configured character
Main ==
    /\ runs = 0
    /\ ProcessCharacter(CHARACTER)
    /\ runs' = 1

\* process_character is called once with any name
Call ==
    /\ runs = 0
    /\ \E c \in CharacterNames : ProcessCharacter(c)
    /\ runs' = 1

\* the script is executed again in the same host session, for any character
Rerun ==
    /\ runs < MaxRuns
    /\ \E c \in CharacterNames : ProcessCharacter(c)
    /\ runs' = runs + 1

\* One execution of the script, for every content of the files it reads
Next ==
    \/ Main
    \/ Call
    \/ ClearScene
    \/ ImportCharacterMesh
    \/ ImportMixamoAnimation
    \/ ExportGlb

Spec == Init /\ [][Next]_vars

\* Up to MaxRuns executions in one host session, over Mixamo's files
NextSession ==
    \/ Rerun
    \/ ClearScene
    \/ ImportCharacterMesh
    \/ ImportMixamoClip
    \/ ExportGlb

SpecSession == Init /\ [][NextSession]_vars

-----------------------------------------------------------------------------
(* What the claims below read off a state *)

\* a run of process_character for a key of CONFIG has been started
KnownRun == runs > 0 /\ character_name \in DOMAIN CONFIG

RunEnded == pc \in {"done", "aborted"}

\* import_character_mesh was called and one of the two configured names was not
\* among the objects the host read from the mesh source
MeshLookupFailed ==
    /\ KnownRun
    /\ <<"import_character_mesh">> \in Range(steps)
    /\ (Config.mesh_armature \notin imported \/ Config.mesh_object \notin imported)

\* import_character_mesh has returned
MeshReturned == armature # 0

\* the NLA tracks of the target armature
Tracks == objects[armature].animation_data.nla_tracks

TargetNames == {<<Config.output_name, "_Armature">>, <<Config.output_name, "_Mesh">>}

\* the order of calls of a run that reaches its end
CanonicalSteps ==
    << <<"clear_scene">>, <<"import_character_mesh">> >>
    \o [i \in DOMAIN ANIMATION_FILES |-> <<"import_mixamo_animation", AnimKey(i)>>]
    \o << <<"export_glb">> >>

\* anim_path of the i-th item
AnimPath(i) == PathJoin(Config.animations_dir, AnimFile(i))

\* the items so far whose file was absent / was there with an armature that has an action
AbsentItems == {i \in DOMAIN fbxLog : fbxLog[i].outcome = "absent"}
ActionKeys ==
    LET hits == SelectSeq(fbxLog, LAMBDA e : e.outcome = "action")
    IN [i \in DOMAIN hits |-> hits[i].key]

\* the track line 198-200 adds for the key k
KeyTrack(k) == Track(k, ClipAction.frame_range[1], [ClipAction EXCEPT !.name = k])

\* the tracks an armature may bring along from the mesh source
SourceTracks == {ad.nla_tracks : ad \in ArmatureAnimData}

\* objects of a file that stay in the scene: all but the armature that was picked
Leftover(e) == e.brought - (IF e.outcome \in {"absent", "no_armature"} THEN 0 ELSE 1)

RECURSIVE SumLeftover(_)
SumLeftover(log) ==
    IF log = <<>> THEN 0 ELSE Leftover(log[1]) + SumLeftover(Tail(log))

-----------------------------------------------------------------------------
(* C1: when the file of an animation is absent, import_mixamo_animation warns and
   returns without calling the host's FBX import, adds no track and changes no
   object; the loop goes on with the next item; and export_glb is still called. *)

\* C1, the call itself: for every absent file the warning is logged, the host's FBX
\* import was not called and no track carries the key; the loop is at the next item
C1_SkipOnly ==
    (KnownRun /\ MeshReturned) =>
        /\ \A i \in AbsentItems :
             /\ <<"Animation file not found", AnimPath(i)>> \in warnings
             /\ \A k \in DOMAIN Tracks : Tracks[k].name # fbxLog[i].key
        /\ hostCalls["import_fbx"] = Len(fbxLog) - Cardinality(AbsentItems)
        /\ pc = "anims" => animIdx = Len(fbxLog) + 1

\* C1, the call itself: the call for an absent file changes nothing in the host and
\* moves the loop to the next item
C1_SkipStep ==
    [][ (Len(fbxLog') = Len(fbxLog) + 1 /\ fbxLog'[Len(fbxLog')].outcome = "absent")
        => /\ UNCHANGED <<objects, selected, active, hostCalls, pc, error, outputs>>
           /\ animIdx' = animIdx + 1 ]_vars

\* C1, the whole claim: as C1_SkipOnly, and a run that skipped an absent file has
\* called export_glb when it ends
C1_MissingFileSkippedAndExported ==
    /\ C1_SkipOnly
    /\ (KnownRun /\ MeshReturned /\ AbsentItems # {} /\ RunEnded) => exported.called

-----------------------------------------------------------------------------
(* C2: when the configured armature or the configured mesh (or both) is not found
   after the mesh import, import_character_mesh raises and the run ends there: no
   duplicate, rename or transform, no animation import, no export. *)
C2_MissingObjectAborts ==
    MeshLookupFailed =>
        /\ pc = "aborted"
        /\ error = "ValueError: Could not find armature or mesh"
        /\ steps = << <<"clear_scene">>, <<"import_character_mesh">> >>
        /\ \A op \in {"duplicate", "remove", "transform_apply", "import_fbx", "export_gltf"} :
             hostCalls[op] = 0
        /\ \A i \in DOMAIN objects :
             /\ objects[i].name \in imported
             /\ objects[i].rotation_x = 0
             /\ objects[i].scale_pct = UnitScalePct
             /\ objects[i].applied = <<0, UnitScalePct>>
        /\ armature = 0 /\ mesh = 0
        /\ fbxLog = <<>>
        /\ ~exported.called

\* the armature is there and the mesh is not
C2_Witness ==
    /\ MeshLookupFailed
    /\ Config.mesh_armature \in imported
    /\ Config.mesh_object \notin imported
    /\ pc = "aborted"

-----------------------------------------------------------------------------
(* C3: process_character with a name that is not a key of CONFIG fails before any
   host call: the scene is not cleared, nothing is imported or exported, the host
   scene is as it was. *)
C3_UnknownCharacterFailsFirst ==
    /\ []((runs > 0 /\ character_name \notin DOMAIN CONFIG) =>
            /\ pc = "aborted"
            /\ error = "ValueError: Unknown character"
            /\ hostCalls = NoCalls
            /\ steps = <<>>
            /\ ~exported.called)
    /\ [][ (runs' # runs /\ character_name' \notin DOMAIN CONFIG)
           => UNCHANGED <<objects, selected, active, outputs>> ]_vars

\* the failure happened with a scene that held something
C3_Witness ==
    /\ runs > 0
    /\ character_name \notin DOMAIN CONFIG
    /\ pc = "aborted"
    /\ DOMAIN objects # {}

-----------------------------------------------------------------------------
(* C4: a run for a key of CONFIG whose two objects are found always reaches
   export_glb and finishes, whatever the animation files hold: the only run that
   is aborted is the one of a missing object. *)
C4_OnlyMissingObjectAborts ==
    (KnownRun /\ pc = "aborted") => MeshLookupFailed

-----------------------------------------------------------------------------
(* C5: at export the NLA tracks of the target armature are exactly one track per
   animation whose file held an armature with an action, each track, its strip and
   its action named by the key, in table order.
   As amended: these tracks follow the tracks the armature brought along from the
   mesh source. *)

\* C5 as made: at export the tracks are exactly the tracks of the keys whose file
\* held an armature with an action, in table order
C5_TracksAreExactlyTheKeys ==
    pc = "done" => exported.tracks = [i \in DOMAIN ActionKeys |-> KeyTrack(ActionKeys[i])]

\* C5 as amended: the tracks of the target armature are the tracks it brought from
\* the mesh source followed by one track per key whose file held an armature with an
\* action, in table order, no key twice; export writes these tracks
C5_TracksAppendedPerKey ==
    (KnownRun /\ MeshReturned) =>
        /\ \E src \in SourceTracks :
             Tracks = src \o [i \in DOMAIN ActionKeys |-> KeyTrack(ActionKeys[i])]
        /\ \A i, j \in DOMAIN ActionKeys : ActionKeys[i] = ActionKeys[j] => i = j
        /\ pc = "done" => exported.tracks = Tracks

\* two clips attached and one skipped, on an armature that came with a track
C5_Witness ==
    /\ pc = "done"
    /\ Len(ActionKeys) >= 2
    /\ Len(ActionKeys) < Len(fbxLog)
    /\ Len(exported.tracks) > Len(ActionKeys)

-----------------------------------------------------------------------------
(* C6: the output paths of any two keys of CONFIG differ, so the runs of two
   different characters never write the same file. *)
C6_OutputPathsUnique ==
    /\ \A c1, c2 \in DOMAIN CONFIG :
         c1 # c2 => CONFIG[c1].output_path # CONFIG[c2].output_path
    /\ \A o1, o2 \in outputs : o1.path = o2.path => o1.by = o2.by

\* two characters have been exported in one session
C6_Witness == \E o1, o2 \in outputs : o1.by # o2.by

-----------------------------------------------------------------------------
(* C7: when import_character_mesh returns, the scene holds exactly the two
   duplicates, named <output_name>_Armature and <output_name>_Mesh; at the export
   call the selection is exactly these two, and they are written to the
   character's output_path. *)
C7_OnlyTheTwoObjects ==
    /\ (pc = "anims" /\ fbxLog = <<>>) =>
          /\ DOMAIN objects = {armature, mesh}
          /\ armature # mesh
          /\ objects[armature].name = <<Config.output_name, "_Armature">>
          /\ objects[mesh].name = <<Config.output_name, "_Mesh">>
          /\ objects[armature].type = "ARMATURE"
          /\ objects[mesh].type = "MESH"
          /\ \A i \in DOMAIN objects : objects[i].made = <<runs, "duplicate">>
    /\ pc = "done" =>
          /\ exported.called
          /\ selected = {armature, mesh}
          /\ exported.objects = TargetNames
          /\ exported.filepath = Config.output_path
          /\ [path |-> Config.output_path, by |-> character_name] \in outputs

\* the source scene held other objects, and objects of animation files are still
\* in the scene at export
C7_Witness ==
    /\ pc = "done"
    /\ Cardinality(imported) > 2
    /\ Cardinality(DOMAIN objects) > 2

-----------------------------------------------------------------------------
(* C8: no rollback: when the run is aborted because an object is not found, what
   the scene held before the run is gone, the objects read from the mesh source
   are still there, and no output file is written or removed. *)
C8_NoRollback ==
    /\ [](MeshLookupFailed =>
            /\ \A i \in DOMAIN objects : objects[i].made = <<runs, "import_gltf">>
            /\ {objects[i].name : i \in DOMAIN objects} = imported
            /\ Cardinality(DOMAIN objects) = Cardinality(imported)
            /\ ~exported.called)
    /\ [][pc' = "aborted" => outputs' = outputs]_vars

\* a second run is aborted on a scene that the first one had filled and exported
C8_Witness ==
    /\ MeshLookupFailed
    /\ runs >= 2
    /\ outputs # {}
    /\ imported # {}

-----------------------------------------------------------------------------
(* C9: the steps of a run come in a fixed order and at most once each: clear_scene,
   the mesh import, every item of ANIMATION_FILES once in table order, and
   export_glb once, after all items; only the selected character is processed. *)
C9_FixedOrder ==
    KnownRun =>
        /\ Len(steps) <= Len(CanonicalSteps)
        /\ steps = SubSeq(CanonicalSteps, 1, Len(steps))
        /\ hostCalls["export_gltf"] = (IF pc = "done" THEN 1 ELSE 0)
        /\ hostCalls["import_gltf"] <= 1
        /\ pc = "done" => steps = CanonicalSteps
        /\ exported.called => exported.filepath = Config.output_path
        /\ \A o \in outputs : o.by = character_name /\ o.path = Config.output_path

C9_Witness == pc = "done" /\ steps = CanonicalSteps /\ exported.called

-----------------------------------------------------------------------------
(* C10: every call of import_mixamo_animation leaves the set of objects of the
   scene as it was, whatever the file holds, so that at export the scene holds
   only the target armature and the mesh.
   As amended: the call removes the one armature it picked and nothing else of
   what the import brought. *)

\* C10 as made: after any number of calls of import_mixamo_animation the scene holds
\* the target armature and the mesh and nothing else
C10_SceneHoldsOnlyTheTwo ==
    (KnownRun /\ MeshReturned) => DOMAIN objects = {armature, mesh}

\* C10 as amended: the scene holds the target armature, the mesh and every object the
\* FBX imports of this run brought except the one armature each call picked; export
\* writes the target armature and the mesh only
C10_OnlyThePickedArmatureRemoved ==
    (KnownRun /\ MeshReturned) =>
        /\ {armature, mesh} \subseteq DOMAIN objects
        /\ Cardinality(DOMAIN objects) = 2 + SumLeftover(fbxLog)
        /\ \A i \in DOMAIN objects \ {armature, mesh} :
             objects[i].made = <<runs, "import_fbx">>
        /\ exported.called => exported.objects = TargetNames

\* a file with an armature and one more object was imported, and the run got to export
C10_Witness ==
    /\ pc = "done"
    /\ \E i \in DOMAIN fbxLog : fbxLog[i].outcome = "action" /\ fbxLog[i].brought > 1
    /\ Cardinality(DOMAIN objects) > 2

====
